---- MODULE Spec2Model ----
(***************************************************************************)
(* dishduty: daily dish-duty assignment on top of a PocketBase record      *)
(* store.  The repository holds two Go programs over the same collections  *)
(* (workers, assignments, assignment_queue, action_log):                   *)
(*   main.go       ensureDailyAssignmentGo, queue/add, status PATCH        *)
(*   part_000      processDailyAssignments, queue/add, mark-not-done       *)
(* Both are modelled, each handler as one atomic action.                   *)
(*                                                                         *)
(* The record store is external.  Its queries are modelled by the text of  *)
(* the filter the code passes (comparison of date fields at calendar-day   *)
(* precision, ORDER BY as written, no row limit hit), and the schema's     *)
(* Unique flag on assignments.date as a constraint that makes SaveRecord   *)
(* fail.                                                                   *)
(*                                                                         *)
(* Time: an instant is a number of ticks, TicksPerDay ticks a day.  A      *)
(* YYYY-MM-DD string is modelled by its day number; a stored date field    *)
(* holds the instant of that day's midnight.                               *)
(***************************************************************************)
EXTENDS Integers, Sequences, FiniteSets, TLC

\* ---------------------------------------------------------------- bounds
MaxDay == 2
LongDay == 5
MaxLog == 3
MaxDur == 3
TicksPerDay == 2
MaxTick == (MaxDay + 1) * TicksPerDay - 1
LongTick == (LongDay + 1) * TicksPerDay - 1

Secret == "devpassword"
NoDate == 0 - 1
NoWorker == ""
Roster == <<"keromag", "megatorg">>

Passwords == {Secret, "wrong", ""}
WorkerInputs == {Roster[i] : i \in 1..Len(Roster)} \cup {"", "ghost"}
DurationInputs == {0, 1, MaxDur, 8}
StatusInputs == {"assigned", "done", "not_done", "maybe"}

VARIABLES now, adminPass, workers, assignments, queue, actionLog,
          logDown, \* the action_log collection cannot be written
          last,    \* the response to the last request, where responses are recorded
          pc,      \* the position of each resolver invocation that runs step by step
          local    \* its local variables

vars == <<now, adminPass, logDown, workers, assignments, queue, actionLog, last, pc, local>>

\* ------------------------------------------------------- date utilities
formatDateToYMDGo(t) == t \div TicksPerDay

parseYMDToGoTime(ymd) == ymd * TicksPerDay

AddDate(t, days) == t + days * TicksPerDay

addDaysToYMDGo(ymd, days) == formatDateToYMDGo(AddDate(parseYMDToGoTime(ymd), days))

getTodayYMDGo == formatDateToYMDGo(now)

\* ------------------------------------------------------ sequence helpers
RemoveAt(s, i) == SubSeq(s, 1, i - 1) \o SubSeq(s, i + 1, Len(s))

FirstIdx(s, P(_)) ==
  IF \E i \in 1..Len(s) : P(s[i])
  THEN CHOOSE i \in 1..Len(s) : P(s[i]) /\ \A j \in 1..(i - 1) : ~P(s[j])
  ELSE 0

Range(s) == {s[i] : i \in 1..Len(s)}

\* ------------------------------------------------------------ the store
DB == [workers |-> workers, assignments |-> assignments,
       queue |-> queue, actionLog |-> actionLog, logDown |-> logDown]

\* variant: the comparison alone, without the test for an unset secret
isAdminGoCompareOnly(providedPassword) == providedPassword = adminPass

isAdminGo(providedPassword) ==
  IF adminPass = "" THEN FALSE ELSE providedPassword = adminPass

\* an action_log record: action_type and, of the details payload, the worker,
\* the date and one further entry (source, reassigned_today)
\* when the save of the record fails the error goes back to the caller, who
\* drops or prints it, and the collection is as it was
logActionGo(db, actionType, workerId, date, detail) ==
  IF db.logDown THEN db
  ELSE [db EXCEPT !.actionLog = Append(@, [action_type |-> actionType,
                                           worker_id |-> workerId,
                                           date |-> date, detail |-> detail])]

FindWorker(ws, id) == FirstIdx(ws, LAMBDA w : w.name = id)

\* variant: the store accepts any date (no unique index on assignments.date)
DateIsFreeUnchecked(asg, date, self) == TRUE

\* the Unique flag of assignments.date: a save that would leave another
\* record with the same date value fails
DateIsFree(asg, date, self) ==
  \A j \in 1..Len(asg) : j # self => asg[j].date # date

\* variant: the date is written to every worker
SetLastAssignedAll(db, wi, t) ==
  [db EXCEPT !.workers = [i \in 1..Len(@) |-> [@[i] EXCEPT !.last_assigned_date = t]]]

SetLastAssigned(db, wi, t) ==
  [db EXCEPT !.workers[wi].last_assigned_date = t]

Resp(op, code, worker) == [op |-> op, code |-> code, worker |-> worker]

\* an error response with its message
ErrResp(op, code, message) ==
  [op |-> op, code |-> code, worker |-> "", message |-> message]

\* no request answered yet
NoResp == Resp("", 0, "")

\* the two callers of ensureDailyAssignmentGo that can run at the same time:
\* the startup goroutine and a current-assignee request
Procs == {"startup", "http"}

NoRecord == [worker_id |-> NoWorker, start_date |-> NoDate, duration_days |-> 0,
             order |-> 0]

\* prior: the workers and the queue as they were when the invocation began;
\* record: the queue record an enqueue request has built and not yet saved
NoLocal == [t |-> NoDate, worker |-> NoWorker, source |-> "",
            prior |-> [workers |-> <<>>, queue |-> <<>>], record |-> NoRecord]


\* ------------------------------------------- POST /api/dishduty/queue/add
\* FindFirstRecordByFilter("assignment_queue", "1=1 ORDER BY {{order}} DESC")
LastQueueItem(q) ==
  FirstIdx(q, LAMBDA e : \A j \in 1..Len(q) : q[j].order <= e.order)

\* FindFirstRecordByFilter("assignments", "1=1 ORDER BY date DESC")
LatestAssignment(asg) ==
  FirstIdx(asg, LAMBDA a : \A j \in 1..Len(asg) : asg[j].date <= a.date)

\* variant: the day after the last entry's start, whatever its duration
QueueStartDateYMDNoDuration(db, todayYMD) ==
  LET li == LastQueueItem(db.queue)
      la == LatestAssignment(db.assignments)
  IN  IF li # 0
      THEN addDaysToYMDGo(formatDateToYMDGo(db.queue[li].start_date), 1)
      ELSE IF la # 0
      THEN LET latestAssignmentYMD == formatDateToYMDGo(db.assignments[la].date)
           IN  IF parseYMDToGoTime(latestAssignmentYMD) >= parseYMDToGoTime(todayYMD)
               THEN addDaysToYMDGo(latestAssignmentYMD, 1)
               ELSE todayYMD
      ELSE todayYMD

\* the start date (a day number) the handler computes before the clamp
QueueStartDateYMD(db, todayYMD) ==
  LET li == LastQueueItem(db.queue)
      la == LatestAssignment(db.assignments)
  IN  IF li # 0
      THEN LET lastQueueItemEndDate ==
                 formatDateToYMDGo(AddDate(db.queue[li].start_date,
                                           db.queue[li].duration_days - 1))
           IN  addDaysToYMDGo(lastQueueItemEndDate, 1)
      ELSE IF la # 0
      THEN LET latestAssignmentYMD == formatDateToYMDGo(db.assignments[la].date)
           IN  IF parseYMDToGoTime(latestAssignmentYMD) >= parseYMDToGoTime(todayYMD)
               THEN addDaysToYMDGo(latestAssignmentYMD, 1)
               ELSE todayYMD
      ELSE todayYMD

\* variant: no clamp
ClampNever(startDateYMD, todayYMD) == startDateYMD

ClampToToday(startDateYMD, todayYMD) ==
  IF parseYMDToGoTime(startDateYMD) < parseYMDToGoTime(todayYMD)
  THEN todayYMD ELSE startDateYMD

\* variant: with an empty queue, always the day after the latest assignment
StartDateAfterLatest(db, todayYMD) ==
  LET la == LatestAssignment(db.assignments)
  IN  IF LastQueueItem(db.queue) = 0 /\ la # 0
      THEN addDaysToYMDGo(formatDateToYMDGo(db.assignments[la].date), 1)
      ELSE ClampToToday(QueueStartDateYMD(db, todayYMD), todayYMD)

\* the start date the new queue record gets
StartDateForQueue(db, todayYMD) ==
  ClampToToday(QueueStartDateYMD(db, todayYMD), todayYMD)

\* variant: every entry gets order 1
QueueOrderFirst(q) == 1

QueueOrder(q) ==
  LET li == LastQueueItem(q) IN IF li # 0 THEN q[li].order + 1 ELSE 1

\* variant: only the lower limit is checked
ValidDurationDaysFromOne(durationDays) == ~(durationDays < 1)

\* "if req.DurationDays < 1 || req.DurationDays > 7", negated
ValidDurationDays(durationDays) == ~(durationDays < 1 \/ durationDays > 7)

queueAddHandler(db, workerId, durationDays, pw) ==
  IF ~isAdminGo(pw) THEN [db |-> db, resp |-> Resp("queueAdd", 403, "")]
  ELSE IF ~ValidDurationDays(durationDays)
  THEN [db |-> db,
        resp |-> ErrResp("queueAdd", 400, "duration_days must be between 1 and 7.")]
  ELSE IF workerId = ""
  THEN [db |-> db, resp |-> ErrResp("queueAdd", 400, "worker_id is required.")]
  ELSE IF FindWorker(db.workers, workerId) = 0
  THEN [db |-> db, resp |-> Resp("queueAdd", 404, "")]
  ELSE
    LET todayYMD == getTodayYMDGo
        startDateYMD == StartDateForQueue(db, todayYMD)
        order == QueueOrder(db.queue)
        newQueueRecord == [worker_id |-> workerId,
                           start_date |-> parseYMDToGoTime(startDateYMD),
                           duration_days |-> durationDays,
                           order |-> order]
        saved == [db EXCEPT !.queue = Append(@, newQueueRecord)]
    IN  [db |-> logActionGo(saved, "added_to_queue", workerId, startDateYMD, ""),
         resp |-> Resp("queueAdd", 201, workerId)]

\* ------------------------------- ensureDailyAssignmentGo (main.go 776-914)
\* "date >= {:startOfDay} AND date <= {:endOfDay}", Limit(1)
ExistingAssignmentGo(asg, t) ==
  LET todayStart == parseYMDToGoTime(formatDateToYMDGo(t))
      todayEnd == todayStart + TicksPerDay - 1
  IN  FirstIdx(asg, LAMBDA a : a.date >= todayStart /\ a.date <= todayEnd)

\* variant: the due entries sorted by order descending
DueQueuedAssignmentGoDesc(q, t) ==
  LET todayStart == parseYMDToGoTime(formatDateToYMDGo(t))
      endOfTodayForQueueQuery == todayStart + TicksPerDay - 1
  IN  FirstIdx(q, LAMBDA e : /\ e.start_date <= endOfTodayForQueueQuery
                             /\ \A j \in 1..Len(q) :
                                  q[j].start_date <= endOfTodayForQueueQuery
                                    => e.order >= q[j].order)

\* "start_date <= {:effectiveTodayEnd}", OrderBy("order ASC"), Limit(1)
DueQueuedAssignmentGo(q, t) ==
  LET todayStart == parseYMDToGoTime(formatDateToYMDGo(t))
      endOfTodayForQueueQuery == todayStart + TicksPerDay - 1
  IN  FirstIdx(q, LAMBDA e : /\ e.start_date <= endOfTodayForQueueQuery
                             /\ \A j \in 1..Len(q) :
                                  q[j].start_date <= endOfTodayForQueueQuery
                                    => e.order <= q[j].order)

\* variant: the comparison of the loop reversed (After instead of Before)
RECURSIVE ChooseLoopGoAfter(_, _, _, _, _)
ChooseLoopGoAfter(allWorkers, i, chosenWorker, oldestDate, firstUnassigned) ==
  IF i > Len(allWorkers) THEN chosenWorker
  ELSE IF allWorkers[i].last_assigned_date = NoDate THEN i
  ELSE IF firstUnassigned \/ allWorkers[i].last_assigned_date > oldestDate
  THEN ChooseLoopGoAfter(allWorkers, i + 1, i, allWorkers[i].last_assigned_date, FALSE)
  ELSE ChooseLoopGoAfter(allWorkers, i + 1, chosenWorker, oldestDate, firstUnassigned)

\* the loop over allWorkers of the random assignment: the index chosen, 0 for nil
RECURSIVE ChooseLoopGo(_, _, _, _, _)
ChooseLoopGo(allWorkers, i, chosenWorker, oldestDate, firstUnassigned) ==
  IF i > Len(allWorkers) THEN chosenWorker
  ELSE IF allWorkers[i].last_assigned_date = NoDate THEN i
  ELSE IF firstUnassigned \/ allWorkers[i].last_assigned_date < oldestDate
  THEN ChooseLoopGo(allWorkers, i + 1, i, allWorkers[i].last_assigned_date, FALSE)
  ELSE ChooseLoopGo(allWorkers, i + 1, chosenWorker, oldestDate, firstUnassigned)

\* variant: allWorkers[0], whatever the dates
ChosenWorkerGoFirst(allWorkers) == IF Len(allWorkers) > 0 THEN 1 ELSE 0

ChosenWorkerGo(allWorkers) ==
  LET c == ChooseLoopGo(allWorkers, 1, 0, 0, TRUE)
  IN  IF c = 0 /\ Len(allWorkers) > 0 THEN 1 ELSE c

\* variant: the error of logActionGo is returned, the insert is given up
SaveNewAssignmentGoLogChecked(db, workerId, t, source) ==
  LET todayStart == parseYMDToGoTime(formatDateToYMDGo(t))
      newAssignment == [worker_id |-> workerId, date |-> todayStart, status |-> "assigned"]
  IN  IF ~DateIsFree(db.assignments, todayStart, 0)
      THEN [db |-> db, err |-> "failed to save new assignment"]
      ELSE IF db.logDown
      THEN [db |-> db, err |-> "failed to save action_log record"]
      ELSE [db |-> logActionGo([db EXCEPT !.assignments = Append(@, newAssignment)],
                               "assigned", workerId, formatDateToYMDGo(t), source),
            err |-> ""]

\* the tail of the function: insert today's record and log it
SaveNewAssignmentGo(db, workerId, t, source) ==
  LET todayStart == parseYMDToGoTime(formatDateToYMDGo(t))
      newAssignment == [worker_id |-> workerId, date |-> todayStart, status |-> "assigned"]
  IN  IF ~DateIsFree(db.assignments, todayStart, 0)
      THEN [db |-> db, err |-> "failed to save new assignment"]
      ELSE [db |-> logActionGo([db EXCEPT !.assignments = Append(@, newAssignment)],
                               "assigned", workerId, formatDateToYMDGo(t), source),
            err |-> ""]

\* variant: the empty roster is passed over without an error
NoWorkersGoSilent(db) == [db |-> db, err |-> ""]

\* "if findErr != nil || len(allWorkers) == 0": the error returned
NoWorkersGo(db) == [db |-> db, err |-> "no workers available for random assignment"]

AssignGo(db, t) ==
  LET todayStart == parseYMDToGoTime(formatDateToYMDGo(t))
      qi == DueQueuedAssignmentGo(db.queue, t)
      qw == IF qi = 0 THEN 0 ELSE FindWorker(db.workers, db.queue[qi].worker_id)
  IN  IF qi # 0 /\ qw # 0
      THEN LET d1 == SetLastAssigned(db, qw, todayStart)
               d2 == [d1 EXCEPT !.queue = RemoveAt(@, qi)]
           IN  SaveNewAssignmentGo(d2, db.workers[qw].name, t, "queue_processed")
      ELSE IF Len(db.workers) = 0
      THEN NoWorkersGo(db)
      ELSE LET ci == ChosenWorkerGo(db.workers)
               d1 == SetLastAssigned(db, ci, todayStart)
           IN  SaveNewAssignmentGo(d1, db.workers[ci].name, t, "randomly_assigned")

ensureDailyAssignmentGo(db, t) ==
  LET ei == ExistingAssignmentGo(db.assignments, t)
  IN  IF ei # 0
      THEN IF db.assignments[ei].status = "not_done"
           THEN AssignGo([db EXCEPT !.assignments = RemoveAt(@, ei)], t)
           ELSE [db |-> db, err |-> ""]
      ELSE AssignGo(db, t)


\* ----------------------------------- processDailyAssignments (part_000)
\* variant: an assigned record of any date counts as today's
ExistingAssignmentTodayAnyDate(asg, todayYMD) ==
  FirstIdx(asg, LAMBDA a : a.status = "assigned")

\* "date = {:today} AND status = 'assigned'"
ExistingAssignmentToday(asg, todayYMD) ==
  FirstIdx(asg, LAMBDA a : formatDateToYMDGo(a.date) = todayYMD /\ a.status = "assigned")

\* "start_date <= {:today} ORDER BY {{order}} ASC"
DueQueueItem(q, todayYMD) ==
  FirstIdx(q, LAMBDA e : /\ formatDateToYMDGo(e.start_date) <= todayYMD
                         /\ \A j \in 1..Len(q) :
                              formatDateToYMDGo(q[j].start_date) <= todayYMD
                                => e.order <= q[j].order)

\* variant: the start date of the entry as stored, however old
EffectiveStartDateYMDAsStored(item, todayYMD) ==
  formatDateToYMDGo(item.start_date)

EffectiveStartDateYMD(item, todayYMD) ==
  LET effectiveStartDateYMD == formatDateToYMDGo(item.start_date)
  IN  IF parseYMDToGoTime(effectiveStartDateYMD) < parseYMDToGoTime(todayYMD)
      THEN todayYMD ELSE effectiveStartDateYMD

\* one iteration of the loop "for i := 0; i < duration; i++"
AssignDay(asg, workerId, assignmentDate) ==
  LET assignmentDateFull == parseYMDToGoTime(assignmentDate)
      ex == FirstIdx(asg, LAMBDA a : a.worker_id = workerId
                                     /\ formatDateToYMDGo(a.date) = assignmentDate)
  IN  IF ex # 0
      THEN IF asg[ex].status # "assigned"
           THEN [asg EXCEPT ![ex].status = "assigned"]
           ELSE asg
      ELSE IF DateIsFree(asg, assignmentDateFull, 0)
      THEN Append(asg, [worker_id |-> workerId, date |-> assignmentDateFull,
                        status |-> "assigned"])
      ELSE asg

RECURSIVE AssignSpan(_, _, _, _, _)
AssignSpan(asg, workerId, effectiveStartDateYMD, i, duration) ==
  IF i >= duration THEN asg
  ELSE AssignSpan(AssignDay(asg, workerId, addDaysToYMDGo(effectiveStartDateYMD, i)),
                  workerId, effectiveStartDateYMD, i + 1, duration)

\* variant: among the workers of least date the one created last
SelectedWorkerCreatedDesc(ws) ==
  IF ws = <<>> THEN 0
  ELSE CHOOSE i \in 1..Len(ws) :
         /\ \A j \in 1..Len(ws) : ws[i].last_assigned_date <= ws[j].last_assigned_date
         /\ \A j \in (i + 1)..Len(ws) :
              ws[j].last_assigned_date # ws[i].last_assigned_date

\* "1=1 ORDER BY last_assigned_date ASC NULLS FIRST, created ASC": workers[0]
SelectedWorker(ws) ==
  FirstIdx(ws, LAMBDA w : \A j \in 1..Len(ws) :
                            w.last_assigned_date <= ws[j].last_assigned_date)

processDailyAssignments(db) ==
  LET todayYMD == getTodayYMDGo
      todayFull == parseYMDToGoTime(todayYMD)
      ei == ExistingAssignmentToday(db.assignments, todayYMD)
      qi == DueQueueItem(db.queue, todayYMD)
  IN  IF ei # 0
      THEN [db |-> db, err |-> "", assigned_worker_id |-> db.assignments[ei].worker_id]
      ELSE IF qi # 0
      THEN LET item == db.queue[qi]
               workerId == item.worker_id
               duration == item.duration_days
               eff == EffectiveStartDateYMD(item, todayYMD)
               wi == FindWorker(db.workers, workerId)
           IN  IF wi = 0
               THEN [db |-> db, err |-> "failed to find worker", assigned_worker_id |-> ""]
               ELSE LET d1 == [db EXCEPT !.assignments =
                                 AssignSpan(@, workerId, eff, 0, duration)]
                        d2 == [d1 EXCEPT !.queue = RemoveAt(@, qi)]
                        d3 == SetLastAssigned(d2, wi,
                                 parseYMDToGoTime(addDaysToYMDGo(eff, duration - 1)))
                    IN  [db |-> logActionGo(d3, "queue_processed", workerId, eff, ""),
                         err |-> "", assigned_worker_id |-> workerId]
      ELSE IF Len(db.workers) = 0
      THEN [db |-> logActionGo(db, "random_assignment_failed", "", NoDate, ""),
            err |-> "no workers available", assigned_worker_id |-> ""]
      ELSE LET si == SelectedWorker(db.workers)
               selectedWorker == db.workers[si].name
           IN  IF ~DateIsFree(db.assignments, todayFull, 0)
               THEN [db |-> db, err |-> "failed to create assignment",
                     assigned_worker_id |-> ""]
               ELSE LET d1 == [db EXCEPT !.assignments =
                                 Append(@, [worker_id |-> selectedWorker,
                                            date |-> todayFull, status |-> "assigned"])]
                        d2 == SetLastAssigned(d1, si, todayFull)
                    IN  [db |-> logActionGo(d2, "randomly_assigned", selectedWorker, todayYMD, ""),
                         err |-> "", assigned_worker_id |-> selectedWorker]

\* POST /api/dishduty/trigger-daily-assignment
triggerDailyAssignmentHandler(db) ==
  LET r == processDailyAssignments(db)
  IN  IF r.err # ""
      THEN [db |-> logActionGo(r.db, "daily_assignment_error", "", NoDate, r.err),
            resp |-> Resp("triggerDaily", 500, "")]
      ELSE [db |-> r.db, resp |-> Resp("triggerDaily", 200, r.assigned_worker_id)]

\* GET /api/dishduty/current-assignee (part_000)
currentAssigneeHandler(db) ==
  LET ci == ExistingAssignmentToday(db.assignments, getTodayYMDGo)
      r == processDailyAssignments(db)
  IN  IF ci # 0
      THEN [db |-> db, resp |-> Resp("currentAssignee", 200, db.assignments[ci].worker_id)]
      ELSE IF r.err # "" THEN [db |-> r.db, resp |-> Resp("currentAssignee", 500, "")]
      ELSE IF r.assigned_worker_id # ""
      THEN [db |-> r.db, resp |-> Resp("currentAssignee", 200, r.assigned_worker_id)]
      ELSE [db |-> r.db, resp |-> Resp("currentAssignee", 404, "")]

\* GET /api/dishduty/current-assignee (main.go)
currentAssigneeGoHandler(db) ==
  LET r == ensureDailyAssignmentGo(db, now)
      todayStart == parseYMDToGoTime(formatDateToYMDGo(now))
      todayEnd == todayStart + TicksPerDay - 1
      ai == FirstIdx(r.db.assignments,
                     LAMBDA a : a.date >= todayStart /\ a.date <= todayEnd
                                /\ a.status = "assigned")
  IN  IF ai = 0 THEN [db |-> r.db, resp |-> Resp("currentAssigneeGo", 404, "")]
      ELSE [db |-> r.db,
            resp |-> Resp("currentAssigneeGo", 200, r.db.assignments[ai].worker_id)]

\* ------------------------ PATCH /api/dishduty/assignments/:id/status
\* the id of a record is modelled by its position; 0 is an id no record has
\* variant: every status value passes
validStatusesAny(status) == TRUE

\* validStatuses[requestData.Status]
validStatuses(status) == status \in {"assigned", "done", "not_done"}

\* variant: a record that is done keeps its status
SetAssignmentStatusKeepDone(db, assignmentID, status) ==
  IF db.assignments[assignmentID].status = "done" THEN db
  ELSE [db EXCEPT !.assignments[assignmentID].status = status]

\* assignment.Set("status", requestData.Status) and its save
SetAssignmentStatus(db, assignmentID, status) ==
  [db EXCEPT !.assignments[assignmentID].status = status]

setStatusHandler(db, assignmentID, status, pw) ==
  IF ~isAdminGo(pw) THEN [db |-> db, resp |-> Resp("setStatus", 403, "")]
  ELSE IF ~validStatuses(status)
  THEN [db |-> db, resp |-> ErrResp("setStatus", 400, "Invalid status value.")]
  ELSE IF assignmentID \notin 1..Len(db.assignments)
  THEN [db |-> db, resp |-> Resp("setStatus", 404, "")]
  ELSE LET d1 == SetAssignmentStatus(db, assignmentID, status)
           w == db.assignments[assignmentID].worker_id
       IN  [db |-> IF status = "not_done"
                   THEN logActionGo(d1, "marked_not_done", w,
                                    formatDateToYMDGo(db.assignments[assignmentID].date), "")
                   ELSE d1,
            resp |-> Resp("setStatus", 200, w)]


\* --------------------------- POST /api/dishduty/mark-not-done (part_000)
RECURSIVE SortByDate(_, _)
SortByDate(asg, S) ==
  IF S = {} THEN <<>>
  ELSE LET m == CHOOSE i \in S : \A j \in S :
                  \/ asg[i].date < asg[j].date
                  \/ (asg[i].date = asg[j].date /\ i <= j)
       IN  <<m>> \o SortByDate(asg, S \ {m})

\* "date > {:today} ORDER BY date": the positions of the records, in date order
FutureAssignments(asg, todayYMD) ==
  SortByDate(asg, {i \in 1..Len(asg) : formatDateToYMDGo(asg[i].date) > todayYMD})

\* variant: the loop ends at the first record whose save fails
RECURSIVE ShiftAssignmentsAbort(_, _, _)
ShiftAssignmentsAbort(asg, future, k) ==
  IF k > Len(future) THEN asg
  ELSE LET i == future[k]
           newDateYMD == addDaysToYMDGo(formatDateToYMDGo(asg[i].date), 1)
           newDate == parseYMDToGoTime(newDateYMD)
       IN  IF DateIsFree(asg, newDate, i)
           THEN ShiftAssignmentsAbort([asg EXCEPT ![i].date = newDate], future, k + 1)
           ELSE asg

\* the loop "for _, assign := range futureAssignments"
RECURSIVE ShiftAssignments(_, _, _)
ShiftAssignments(asg, future, k) ==
  IF k > Len(future) THEN asg
  ELSE LET i == future[k]
           newDateYMD == addDaysToYMDGo(formatDateToYMDGo(asg[i].date), 1)
           newDate == parseYMDToGoTime(newDateYMD)
       IN  IF DateIsFree(asg, newDate, i)
           THEN ShiftAssignments([asg EXCEPT ![i].date = newDate], future, k + 1)
           ELSE ShiftAssignments(asg, future, k + 1)

\* variant: every entry is shifted, whatever its start date
ShiftQueueAll(q, todayYMD) ==
  [i \in 1..Len(q) |->
     [q[i] EXCEPT !.start_date =
        parseYMDToGoTime(addDaysToYMDGo(formatDateToYMDGo(q[i].start_date), 1))]]

\* the loop "for _, item := range queueItems"
ShiftQueue(q, todayYMD) ==
  [i \in 1..Len(q) |->
     LET originalStartDateYMD == formatDateToYMDGo(q[i].start_date)
     IN  IF parseYMDToGoTime(originalStartDateYMD) >= parseYMDToGoTime(todayYMD)
         THEN [q[i] EXCEPT !.start_date =
                 parseYMDToGoTime(addDaysToYMDGo(originalStartDateYMD, 1))]
         ELSE q[i]]

\* "1. Cancel/remove any existing assignment for today IF it's not the failed worker"
CancelTodayOfOther(db, ti, failedWorkerId, todayYMD) ==
  logActionGo([db EXCEPT !.assignments = RemoveAt(@, ti)],
              "assignment_cancelled_for_reassignment",
              db.assignments[ti].worker_id, todayYMD, "")

\* variant: the worker's last_assigned_date is not written
NewTodayAssignmentOnly(db, failedWorkerId, fw, todayFull) ==
  [db EXCEPT !.assignments =
     Append(@, [worker_id |-> failedWorkerId, date |-> todayFull, status |-> "assigned"])]

\* "2. Create new assignment for failed_worker_id for today", after its save
NewTodayAssignment(db, failedWorkerId, fw, todayFull) ==
  SetLastAssigned(
    [db EXCEPT !.assignments =
       Append(@, [worker_id |-> failedWorkerId, date |-> todayFull, status |-> "assigned"])],
    fw, todayFull)

\* variant: when no record has the date, the first record is taken
AssignmentToMarkOrFirst(asg, date) ==
  LET mi == FirstIdx(asg, LAMBDA a : formatDateToYMDGo(a.date) = date)
  IN  IF mi = 0 /\ asg # <<>> THEN 1 ELSE mi

\* "Find the assignment to mark as not done": "date = {:date}", 0 for none
AssignmentToMark(asg, date) ==
  FirstIdx(asg, LAMBDA a : formatDateToYMDGo(a.date) = date)

markNotDoneHandler(db, date, pw) ==
  IF ~isAdminGo(pw) THEN [db |-> db, resp |-> Resp("markNotDone", 403, "")]
  ELSE IF date = NoDate THEN [db |-> db, resp |-> Resp("markNotDone", 400, "")]
  ELSE
    LET todayYMD == getTodayYMDGo
        todayFull == parseYMDToGoTime(todayYMD)
        mi == AssignmentToMark(db.assignments, date)
    IN  IF mi = 0 THEN [db |-> db, resp |-> Resp("markNotDone", 404, "")]
        ELSE
          LET failedWorkerId == db.assignments[mi].worker_id
              d1 == [db EXCEPT !.assignments[mi].status = "not_done"]
              fw == FindWorker(d1.workers, failedWorkerId)
              ti == FirstIdx(d1.assignments,
                             LAMBDA a : formatDateToYMDGo(a.date) = todayYMD)
              other == ti # 0 /\ d1.assignments[ti].worker_id # failedWorkerId
              d2 == IF other THEN CancelTodayOfOther(d1, ti, failedWorkerId, todayYMD)
                    ELSE d1
              create == ti = 0 \/ other
              saved == create /\ DateIsFree(d2.assignments, todayFull, 0)
              d3 == IF saved THEN NewTodayAssignment(d2, failedWorkerId, fw, todayFull)
                    ELSE d2
              d4 == [d3 EXCEPT !.assignments =
                       ShiftAssignments(@, FutureAssignments(@, todayYMD), 1)]
              d5 == [d4 EXCEPT !.queue = ShiftQueue(@, todayYMD)]
          IN  IF fw = 0 THEN [db |-> d1, resp |-> Resp("markNotDone", 500, "")]
              ELSE IF create /\ ~saved
              THEN [db |-> d2, resp |-> Resp("markNotDone", 500, "")]
              ELSE [db |-> logActionGo(d5, "marked_not_done", failedWorkerId, date,
                                IF saved THEN "reassigned_today" ELSE "not_reassigned"),
                    resp |-> Resp("markNotDone", 200, failedWorkerId)]

\* ---------------------------------------------------------------- machine
Init ==
  /\ now = 0
  /\ adminPass \in {Secret, ""}
  /\ logDown = FALSE
  /\ workers = [i \in 1..Len(Roster) |-> [name |-> Roster[i], last_assigned_date |-> NoDate]]
  /\ assignments = <<>>
  /\ queue = <<>>
  /\ actionLog = <<>>
  /\ last = NoResp
  /\ pc = [p \in Procs |-> "idle"]
  /\ local = [p \in Procs |-> NoLocal]

\* a handler ran to completion: its writes
Handled(r) ==
  /\ Len(actionLog) < MaxLog
  /\ workers' = r.db.workers
  /\ assignments' = r.db.assignments
  /\ queue' = r.db.queue
  /\ actionLog' = r.db.actionLog
  /\ UNCHANGED <<now, adminPass, logDown, last, pc, local>>

Tick ==
  /\ now < MaxTick
  /\ now' = now + 1
  /\ UNCHANGED <<adminPass, logDown, workers, assignments, queue, actionLog, last, pc, local>>

QueueAdd ==
  \E w \in WorkerInputs, d \in DurationInputs, pw \in Passwords :
    Handled(queueAddHandler(DB, w, d, pw))

CurrentAssigneeGo == Handled(currentAssigneeGoHandler(DB))

StartupEnsure ==
  LET r == ensureDailyAssignmentGo(DB, now)
  IN  Handled([db |-> r.db,
               resp |-> Resp("startupEnsure", IF r.err = "" THEN 200 ELSE 500, "")])

TriggerDailyAssignment == Handled(triggerDailyAssignmentHandler(DB))

CurrentAssignee == Handled(currentAssigneeHandler(DB))

SetStatus ==
  \E id \in 0..Len(assignments), st \in StatusInputs, pw \in Passwords :
    Handled(setStatusHandler(DB, id, st, pw))

MarkNotDone ==
  \E d \in {NoDate} \cup (0..(MaxDay + 1)), pw \in Passwords :
    Handled(markNotDoneHandler(DB, d, pw))

Next ==
  \/ Tick
  \/ QueueAdd
  \/ CurrentAssigneeGo
  \/ StartupEnsure
  \/ TriggerDailyAssignment
  \/ CurrentAssignee
  \/ SetStatus
  \/ MarkNotDone

Spec == Init /\ [][Next]_vars

\* a long quiet period: only the clock, enqueue and the main.go resolver
TickLong ==
  /\ now < LongTick
  /\ now' = now + 1
  /\ UNCHANGED <<adminPass, logDown, workers, assignments, queue, actionLog, last, pc, local>>

NextLong ==
  \/ TickLong
  \/ QueueAdd
  \/ StartupEnsure

SpecLong == Init /\ [][NextLong]_vars

\* ------------------------------------------- requests with recorded responses
ApiLog == 3
ActionLogLimit == 50

RECURSIVE Reverse(_)
Reverse(sq) == IF sq = <<>> THEN <<>> ELSE Append(Reverse(Tail(sq)), Head(sq))

\* GET /api/dishduty/action-log (main.go): the newest records first; pw is
\* the password the caller presents, which the handler does not read
actionLogHandler(db, pw) ==
  LET records == Reverse(db.actionLog)
  IN  [db |-> db,
       resp |-> [op |-> "actionLog", code |-> 200, worker |-> "",
                 records |-> IF Len(records) > ActionLogLimit
                             THEN SubSeq(records, 1, ActionLogLimit)
                             ELSE records]]

\* a request was handled and its response reached the caller
Responded(r) ==
  /\ Len(actionLog) < ApiLog
  /\ workers' = r.db.workers
  /\ assignments' = r.db.assignments
  /\ queue' = r.db.queue
  /\ actionLog' = r.db.actionLog
  /\ last' = r.resp
  /\ UNCHANGED <<now, adminPass, logDown, pc, local>>

ApiQueueAdd ==
  \E w \in WorkerInputs, d \in DurationInputs, pw \in Passwords :
    Responded(queueAddHandler(DB, w, d, pw))

ApiCurrentAssigneeGo == Responded(currentAssigneeGoHandler(DB))

ApiTriggerDailyAssignment == Responded(triggerDailyAssignmentHandler(DB))

ApiCurrentAssignee == Responded(currentAssigneeHandler(DB))

ApiSetStatus ==
  \E id \in 0..Len(assignments), st \in StatusInputs, pw \in Passwords :
    Responded(setStatusHandler(DB, id, st, pw))

ApiMarkNotDone ==
  \E d \in {NoDate} \cup (0..(MaxDay + 1)), pw \in Passwords :
    Responded(markNotDoneHandler(DB, d, pw))

ApiActionLog == \E pw \in Passwords : Responded(actionLogHandler(DB, pw))

\* the requests of one day, in any order
NextApi ==
  \/ ApiQueueAdd
  \/ ApiCurrentAssigneeGo
  \/ ApiTriggerDailyAssignment
  \/ ApiCurrentAssignee
  \/ ApiSetStatus
  \/ ApiMarkNotDone
  \/ ApiActionLog

SpecApi == Init /\ [][NextApi]_vars

\* --------------------- ensureDailyAssignmentGo invoked by two callers at once
\* Each invocation runs in three steps, every step atomic as one group of store
\* calls: the check of today's record (with the delete of a not_done one), the
\* choice of the worker (queue or rotation, with its writes), and the insert.
Stored(db) ==
  /\ workers' = db.workers
  /\ assignments' = db.assignments
  /\ queue' = db.queue
  /\ actionLog' = db.actionLog

\* the call: today := time.Now().UTC()
RaceStart(p) ==
  /\ pc[p] = "idle"
  /\ Len(actionLog) < MaxLog
  /\ pc' = [pc EXCEPT ![p] = "check"]
  /\ local' = [local EXCEPT ![p] = [NoLocal EXCEPT !.t = now,
                                       !.prior = [workers |-> workers, queue |-> queue]]]
  /\ UNCHANGED <<now, adminPass, logDown, workers, assignments, queue, actionLog, last>>

\* main.go 792-812
RaceCheck(p) ==
  /\ pc[p] = "check"
  /\ LET ei == ExistingAssignmentGo(assignments, local[p].t)
     IN  IF ei # 0 /\ assignments[ei].status # "not_done"
         THEN /\ pc' = [pc EXCEPT ![p] = "ok"]
              /\ UNCHANGED assignments
         ELSE /\ pc' = [pc EXCEPT ![p] = "pick"]
              /\ assignments' = IF ei # 0 THEN RemoveAt(assignments, ei) ELSE assignments
  /\ UNCHANGED <<now, adminPass, logDown, workers, queue, actionLog, last, local>>

\* main.go 814-900
RacePick(p) ==
  /\ pc[p] = "pick"
  /\ LET t == local[p].t
         todayStart == parseYMDToGoTime(formatDateToYMDGo(t))
         qi == DueQueuedAssignmentGo(queue, t)
         qw == IF qi = 0 THEN 0 ELSE FindWorker(workers, queue[qi].worker_id)
         ci == ChosenWorkerGo(workers)
     IN  IF qi # 0 /\ qw # 0
         THEN /\ Stored([SetLastAssigned(DB, qw, todayStart) EXCEPT
                           !.queue = RemoveAt(@, qi)])
              /\ local' = [local EXCEPT ![p].worker = workers[qw].name,
                                        ![p].source = "queue_processed"]
         ELSE /\ Stored(SetLastAssigned(DB, ci, todayStart))
              /\ local' = [local EXCEPT ![p].worker = workers[ci].name,
                                        ![p].source = "randomly_assigned"]
  /\ pc' = [pc EXCEPT ![p] = "insert"]
  /\ UNCHANGED <<now, adminPass, logDown, last>>

\* main.go 902-913
RaceInsert(p) ==
  /\ pc[p] = "insert"
  /\ LET r == SaveNewAssignmentGo(DB, local[p].worker, local[p].t, local[p].source)
     IN  /\ Stored(r.db)
         /\ pc' = [pc EXCEPT ![p] = IF r.err = "" THEN "ok" ELSE "error"]
  /\ UNCHANGED <<now, adminPass, logDown, last, local>>

\* the caller has taken the result; it may call again
RaceReturn(p) ==
  /\ pc[p] \in {"ok", "error"}
  /\ pc' = [pc EXCEPT ![p] = "idle"]
  /\ local' = [local EXCEPT ![p] = NoLocal]
  /\ UNCHANGED <<now, adminPass, logDown, workers, assignments, queue, actionLog, last>>

\* the requests around the two invocations: enqueue only, within one day
NextRace ==
  \/ QueueAdd
  \/ \E p \in Procs : RaceStart(p)
  \/ \E p \in Procs : RaceCheck(p)
  \/ \E p \in Procs : RacePick(p)
  \/ \E p \in Procs : RaceInsert(p)
  \/ \E p \in Procs : RaceReturn(p)

SpecRace == Init /\ [][NextRace]_vars

\* -------------------------------------------- the rotation over any roster
\* The three seeded workers with any last_assigned_date up to RotDay (or none),
\* no assignment and no queue entry, some days later; then the two resolvers
\* and the clock.
RotDay == 1
SeedWorkers == <<"keromag", "megatorg", "baby-ch">>

InitRotation ==
  /\ now = parseYMDToGoTime(RotDay + 1)
  /\ adminPass = Secret
  /\ logDown = FALSE
  /\ workers \in [1..Len(SeedWorkers) ->
                    [name : {"keromag", "megatorg", "baby-ch"},
                     last_assigned_date : {NoDate} \cup {parseYMDToGoTime(d) : d \in 0..RotDay}]]
  /\ \A i \in 1..Len(SeedWorkers) : workers[i].name = SeedWorkers[i]
  /\ assignments = <<>>
  /\ queue = <<>>
  /\ actionLog = <<>>
  /\ last = NoResp
  /\ pc = [p \in Procs |-> "idle"]
  /\ local = [p \in Procs |-> NoLocal]

TickRotation ==
  /\ now < parseYMDToGoTime(RotDay + 3) - 1
  /\ now' = now + 1
  /\ UNCHANGED <<adminPass, logDown, workers, assignments, queue, actionLog, last, pc, local>>

NextRotation ==
  \/ TickRotation
  \/ StartupEnsure
  \/ TriggerDailyAssignment

SpecRotation == InitRotation /\ [][NextRotation]_vars

\* ------------------------------ the handlers of part_000 over a longer history
UndoneLog == 5

HandledUndone(r) ==
  /\ Len(actionLog) < UndoneLog
  /\ Stored(r.db)
  /\ UNCHANGED <<now, adminPass, logDown, last, pc, local>>

QueueAddUndone ==
  \E w \in WorkerInputs, d \in DurationInputs, pw \in Passwords :
    HandledUndone(queueAddHandler(DB, w, d, pw))

TriggerUndone == HandledUndone(triggerDailyAssignmentHandler(DB))

MarkNotDoneUndone ==
  \E d \in {NoDate} \cup (0..(MaxDay + 1)), pw \in Passwords :
    HandledUndone(markNotDoneHandler(DB, d, pw))

NextUndone ==
  \/ Tick
  \/ QueueAddUndone
  \/ TriggerUndone
  \/ MarkNotDoneUndone

SpecUndone == Init /\ [][NextUndone]_vars

\* -------------------- the handlers of part_000 within one day: spans and cascade
CascadeLog == 4

HandledCascade(r) ==
  /\ Len(actionLog) < CascadeLog
  /\ Stored(r.db)
  /\ UNCHANGED <<now, adminPass, logDown, last, pc, local>>

QueueAddCascade ==
  \E w \in WorkerInputs, d \in DurationInputs, pw \in Passwords :
    HandledCascade(queueAddHandler(DB, w, d, pw))

TriggerCascade == HandledCascade(triggerDailyAssignmentHandler(DB))

MarkNotDoneCascade ==
  \E d \in {NoDate} \cup (0..(MaxDay + 1)), pw \in Passwords :
    HandledCascade(markNotDoneHandler(DB, d, pw))

NextCascade ==
  \/ QueueAddCascade
  \/ TriggerCascade
  \/ MarkNotDoneCascade

SpecCascade == Init /\ [][NextCascade]_vars

\* ------------------- mark-not-done (part_000) step by step, beside the resolver
\* The handler runs outside any transaction; its reads and writes up to the
\* cancellation of today's record are one step, the insert of the new record
\* for today and the cascade are the next. local.t holds the date marked,
\* local.worker the failed worker, local.source whether a record is to be
\* created for today.
\* part_000 813-873, for an admin and a date that has an assignment
UndoneBegin(p) ==
  /\ pc[p] = "idle"
  /\ Len(actionLog) < MaxLog
  /\ isAdminGo(Secret)
  /\ \E date \in 0..(MaxDay + 1) :
       LET todayYMD == getTodayYMDGo
           mi == AssignmentToMark(assignments, date)
       IN  /\ mi # 0
           /\ LET failedWorkerId == assignments[mi].worker_id
                  d1 == [DB EXCEPT !.assignments[mi].status = "not_done"]
                  ti == FirstIdx(d1.assignments,
                                 LAMBDA a : formatDateToYMDGo(a.date) = todayYMD)
                  other == ti # 0 /\ d1.assignments[ti].worker_id # failedWorkerId
              IN  /\ Stored(IF other
                            THEN CancelTodayOfOther(d1, ti, failedWorkerId, todayYMD)
                            ELSE d1)
                  /\ local' = [local EXCEPT ![p] =
                                 [NoLocal EXCEPT !.t = parseYMDToGoTime(date),
                                                 !.worker = failedWorkerId,
                                                 !.source = IF ti = 0 \/ other
                                                            THEN "create" ELSE "keep"]]
  /\ pc' = [pc EXCEPT ![p] = "create"]
  /\ UNCHANGED <<now, adminPass, logDown, last>>

\* part_000 875-1003
UndoneFinish(p) ==
  /\ pc[p] = "create"
  /\ LET todayYMD == getTodayYMDGo
         todayFull == parseYMDToGoTime(todayYMD)
         failedWorkerId == local[p].worker
         fw == FindWorker(workers, failedWorkerId)
         create == local[p].source = "create"
         saved == create /\ DateIsFree(assignments, todayFull, 0)
         d3 == IF saved THEN NewTodayAssignment(DB, failedWorkerId, fw, todayFull)
               ELSE DB
         d4 == [d3 EXCEPT !.assignments =
                  ShiftAssignments(@, FutureAssignments(@, todayYMD), 1)]
         d5 == [d4 EXCEPT !.queue = ShiftQueue(@, todayYMD)]
     IN  IF create /\ ~saved
         THEN /\ pc' = [pc EXCEPT ![p] = "error"]
              /\ UNCHANGED <<workers, assignments, queue, actionLog>>
         ELSE /\ pc' = [pc EXCEPT ![p] = "ok"]
              /\ Stored(logActionGo(d5, "marked_not_done", failedWorkerId,
                                    formatDateToYMDGo(local[p].t),
                                    IF saved THEN "reassigned_today" ELSE "not_reassigned"))
  /\ UNCHANGED <<now, adminPass, logDown, last, local>>

\* the clock between requests: the day does not change while one is served
TickIdle ==
  /\ \A p \in Procs : pc[p] = "idle"
  /\ Tick

NextUndoneRace ==
  \/ TickIdle
  \/ QueueAdd
  \/ TriggerDailyAssignment
  \/ UndoneBegin("http")
  \/ UndoneFinish("http")
  \/ RaceReturn("http")

SpecUndoneRace == Init /\ [][NextUndoneRace]_vars

\* ------------------------------ requests while the action log cannot be written
\* Every save of an action_log record fails. The log no longer grows, so the
\* length of the queue bounds the enqueue requests served; the day does not
\* change.
LogDownQueue == 1

InitLogDown ==
  /\ now = 0
  /\ adminPass = Secret
  /\ logDown = TRUE
  /\ workers = [i \in 1..Len(Roster) |-> [name |-> Roster[i], last_assigned_date |-> NoDate]]
  /\ assignments = <<>>
  /\ queue = <<>>
  /\ actionLog = <<>>
  /\ last = NoResp
  /\ pc = [p \in Procs |-> "idle"]
  /\ local = [p \in Procs |-> NoLocal]

RespondedLogDown(r) ==
  /\ Stored(r.db)
  /\ last' = r.resp
  /\ UNCHANGED <<now, adminPass, logDown, pc, local>>

\* the requests carry the admin password
LogDownQueueAdd ==
  /\ Len(queue) < LogDownQueue
  /\ \E w \in WorkerInputs, d \in DurationInputs :
       RespondedLogDown(queueAddHandler(DB, w, d, Secret))

LogDownCurrentAssigneeGo == RespondedLogDown(currentAssigneeGoHandler(DB))

LogDownSetStatus ==
  \E id \in 0..Len(assignments), st \in StatusInputs :
    RespondedLogDown(setStatusHandler(DB, id, st, Secret))

NextLogDown ==
  \/ LogDownQueueAdd
  \/ LogDownCurrentAssigneeGo
  \/ LogDownSetStatus

SpecLogDown == InitLogDown /\ [][NextLogDown]_vars

\* ------------------------------------ two enqueue requests served at once
\* The handler holds no lock and runs no transaction: its reads up to the
\* computed start date and order are one step, the save of the record and the
\* log record the next. Requests of an admin with valid input, within one day;
\* the two entries of Procs stand for the two requests.
\* main.go 404-443
EnqueueRead(p) ==
  /\ pc[p] = "idle"
  /\ Len(actionLog) < MaxLog
  /\ isAdminGo(Secret)
  /\ \E w \in WorkerInputs, d \in DurationInputs :
       /\ ValidDurationDays(d)
       /\ FindWorker(workers, w) # 0
       /\ local' = [local EXCEPT ![p] =
            [NoLocal EXCEPT !.record =
               [worker_id |-> w,
                start_date |-> parseYMDToGoTime(StartDateForQueue(DB, getTodayYMDGo)),
                duration_days |-> d,
                order |-> QueueOrder(queue)]]]
  /\ pc' = [pc EXCEPT ![p] = "save"]
  /\ UNCHANGED <<now, adminPass, logDown, workers, assignments, queue, actionLog, last>>

\* main.go 444-456
EnqueueSave(p) ==
  /\ pc[p] = "save"
  /\ Stored(logActionGo([DB EXCEPT !.queue = Append(@, local[p].record)],
                        "added_to_queue", local[p].record.worker_id,
                        formatDateToYMDGo(local[p].record.start_date), ""))
  /\ pc' = [pc EXCEPT ![p] = "ok"]
  /\ UNCHANGED <<now, adminPass, logDown, last, local>>

NextEnqueueRace ==
  \/ \E p \in Procs : EnqueueRead(p)
  \/ \E p \in Procs : EnqueueSave(p)
  \/ \E p \in Procs : RaceReturn(p)

SpecEnqueueRace == Init /\ [][NextEnqueueRace]_vars

\* ------------------------------------- the resolver every day, then quiet
\* One deployment runs one of the two programs: local["startup"].source names
\* its resolver. The day advances once the resolver has run on it
\* (pc["startup"] = "ok": it has). Admin requests and further resolver runs
\* come during the first MaxDay days until the requests stop for good
\* (pc["http"] = "ok": they have); from then on only the daily run and the
\* clock. DailyDay is late enough for every span that DailyLog requests of
\* MaxDur days can book.
DailyLog == 3

DailyDay == MaxDay + (DailyLog + 1) * (MaxDur + 1)

Resolvers == {"ensureDailyAssignmentGo", "processDailyAssignments"}

InitDaily ==
  /\ now = 0
  /\ adminPass = Secret
  /\ logDown = FALSE
  /\ workers = [i \in 1..Len(Roster) |-> [name |-> Roster[i], last_assigned_date |-> NoDate]]
  /\ assignments = <<>>
  /\ queue = <<>>
  /\ actionLog = <<>>
  /\ last = NoResp
  /\ pc = [p \in Procs |-> "idle"]
  /\ \E r \in Resolvers :
       local = [p \in Procs |-> IF p = "startup" THEN [NoLocal EXCEPT !.source = r]
                                ELSE NoLocal]

DailyResolve ==
  /\ pc["startup"] = "idle"
  /\ IF local["startup"].source = "ensureDailyAssignmentGo"
       THEN LET r == ensureDailyAssignmentGo(DB, now) IN Stored(r.db)
       ELSE Stored(triggerDailyAssignmentHandler(DB).db)
  /\ pc' = [pc EXCEPT !["startup"] = "ok"]
  /\ UNCHANGED <<now, adminPass, logDown, last, local>>

DailyTick ==
  /\ pc["startup"] = "ok"
  /\ formatDateToYMDGo(now) < DailyDay
  /\ now' = parseYMDToGoTime(addDaysToYMDGo(formatDateToYMDGo(now), 1))
  /\ pc' = [pc EXCEPT !["startup"] = "idle"]
  /\ UNCHANGED <<adminPass, logDown, workers, assignments, queue, actionLog, last, local>>

\* a request, or a further run of the resolver, while the log is short
HandledDaily(r) ==
  /\ Len(actionLog) < DailyLog
  /\ Stored(r.db)
  /\ UNCHANGED <<now, adminPass, logDown, last, pc, local>>

DailyAdmin ==
  /\ pc["http"] = "idle"
  /\ formatDateToYMDGo(now) <= MaxDay
  /\ \/ \E w \in WorkerInputs, d \in DurationInputs :
          HandledDaily(queueAddHandler(DB, w, d, Secret))
     \/ IF local["startup"].source = "ensureDailyAssignmentGo"
          THEN \/ \E id \in 0..Len(assignments), st \in StatusInputs :
                    HandledDaily(setStatusHandler(DB, id, st, Secret))
               \/ LET r == ensureDailyAssignmentGo(DB, now) IN HandledDaily(r)
          ELSE \/ \E d \in {NoDate} \cup (0..(MaxDay + 1)) :
                    HandledDaily(markNotDoneHandler(DB, d, Secret))
               \/ HandledDaily(triggerDailyAssignmentHandler(DB))

DailyQuiet ==
  /\ pc["http"] = "idle"
  /\ pc' = [pc EXCEPT !["http"] = "ok"]
  /\ UNCHANGED <<now, adminPass, logDown, workers, assignments, queue, actionLog,
                 last, local>>

NextDaily ==
  \/ DailyResolve
  \/ DailyTick
  \/ DailyAdmin
  \/ DailyQuiet

\* The resolver does run every day and the days do pass. DailyResolve is
\* enabled exactly when pc["startup"] = "idle" and is the one step that ends
\* it, so its weak fairness is []<>(pc["startup"] = "ok").
SpecDaily ==
  /\ InitDaily
  /\ [][NextDaily]_vars
  /\ []<>(pc["startup"] = "ok")
  /\ WF_vars(DailyTick)

\* ------------------------------------------------ rosters of any size
\* The workers collection holds the first n seeded workers, n from 0 (the
\* seeding failed or the records were removed in the admin UI) to all three;
\* nobody was assigned yet. Then the clock and the two resolvers.
InitRoster ==
  /\ now = 0
  /\ adminPass = Secret
  /\ logDown = FALSE
  /\ \E n \in 0..Len(SeedWorkers) :
       workers = [i \in 1..n |-> [name |-> SeedWorkers[i], last_assigned_date |-> NoDate]]
  /\ assignments = <<>>
  /\ queue = <<>>
  /\ actionLog = <<>>
  /\ last = NoResp
  /\ pc = [p \in Procs |-> "idle"]
  /\ local = [p \in Procs |-> NoLocal]

NextRoster ==
  \/ Tick
  \/ StartupEnsure
  \/ TriggerDailyAssignment

SpecRoster == InitRoster /\ [][NextRoster]_vars

TypeOK ==
  /\ now \in 0..LongTick
  /\ Len(actionLog) <= MaxLog + 1
  /\ \A i \in 1..Len(assignments) :
        assignments[i].status \in {"assigned", "done", "not_done"}


\* ================================================================ claims
Today == now \div TicksPerDay

DayOf(t) == t \div TicksPerDay

Midnight(day) == day * TicksPerDay

Assignments == Range(assignments)

Workers == Range(workers)

\* the record the step wrote last to the action log, when it wrote one
Logged(entry) ==
  /\ Len(actionLog') > Len(actionLog)
  /\ entry = actionLog'[Len(actionLog')]

\* the queue entry e of this state is still queued after the step
StillQueued(e) ==
  \E k \in 1..Len(queue') : queue'[k].order = e.order

\* the resolver wrote its log record for a rotation ("random") assignment
IsRotationRecord(entry) ==
  \/ entry.action_type = "randomly_assigned"
  \/ entry.action_type = "assigned" /\ entry.detail = "randomly_assigned"

\* the resolver wrote its log record for the consumption of a queue entry
IsQueueRecord(entry) ==
  \/ entry.action_type = "queue_processed"
  \/ entry.action_type = "assigned" /\ entry.detail = "queue_processed"

\* the mark-not-done handler wrote its closing log record
IsCascadeRecord(entry) ==
  /\ entry.action_type = "marked_not_done"
  /\ entry.detail \in {"reassigned_today", "not_reassigned"}

\* C1: no two Assignment records have the same calendar date, after any
\* sequence of resolver, enqueue, status-update and mark-not-done operations.
C1_UniqueDate ==
  \A i, j \in 1..Len(assignments) :
    i # j => DayOf(assignments[i].date) # DayOf(assignments[j].date)

\* C1 witness: a cascade that reassigned today ran over several assignments
C1_Witness ==
  /\ Len(assignments) >= 3
  /\ \E k \in 1..Len(actionLog) :
       IsCascadeRecord(actionLog[k]) /\ actionLog[k].detail = "reassigned_today"

\* C2 (as claimed): with an Assignment for today of status assigned or done,
\* either resolver succeeds and leaves every record unchanged.
C2_ResolvedIsNoOp ==
  (\E a \in Assignments : DayOf(a.date) = Today /\ a.status \in {"assigned", "done"})
    => /\ ensureDailyAssignmentGo(DB, now).err = ""
       /\ ensureDailyAssignmentGo(DB, now).db = DB
       /\ processDailyAssignments(DB).err = ""
       /\ processDailyAssignments(DB).db = DB

\* C3: a queue entry is never consumed (deleted, its worker assigned) while
\* an entry of lower order is still in the queue.
C3_QueueFIFO ==
  [][\A i, j \in 1..Len(queue) :
       (queue[i].order < queue[j].order /\ StillQueued(queue[i]))
         => StillQueued(queue[j])]_vars

\* C3 witness: the first of two entries was consumed, the second still waits
C3_Witness ==
  /\ Len(queue) = 1
  /\ queue[1].order = 2
  /\ \E k \in 1..Len(actionLog) : IsQueueRecord(actionLog[k])

\* C4 (as claimed): when a resolver consumes a due entry of duration d and
\* effective start s, an assigned Assignment of its worker exists afterwards
\* for each of the days s .. s+d-1.
C4_SpanAssigned ==
  [][\A i \in 1..Len(queue) :
       ~StillQueued(queue[i]) =>
         LET e == queue[i]
             s == IF DayOf(e.start_date) < Today THEN Today ELSE DayOf(e.start_date)
         IN  \A k \in 0..(e.duration_days - 1) :
               \E n \in 1..Len(assignments') :
                 /\ DayOf(assignments'[n].date) = s + k
                 /\ assignments'[n].worker_id = e.worker_id
                 /\ assignments'[n].status = "assigned"]_vars

\* C5: the rotation picks a never-assigned worker when there is one, and
\* otherwise a worker whose last_assigned_date is minimal over the roster.
C5_RotationPick ==
  [][\A entry \in Range(actionLog') :
       (Logged(entry) /\ IsRotationRecord(entry)) =>
         \E w \in Workers :
           /\ w.name = entry.worker_id
           /\ (\E v \in Workers : v.last_assigned_date = NoDate)
                => w.last_assigned_date = NoDate
           /\ \A v \in Workers : w.last_assigned_date <= v.last_assigned_date]_vars

\* C5 witness: a rotation pick was made among workers that all have a date
C5_Witness ==
  /\ Len(actionLog) >= 3
  /\ \A k \in 1..Len(actionLog) : IsRotationRecord(actionLog[k])
  /\ \A w \in Workers : w.last_assigned_date # NoDate


\* the positions of the records of the day in a sequence of assignments
OnDay(asg, day) == {n \in 1..Len(asg) : DayOf(asg[n].date) = day}

\* C6: assignments for 2024-02-01 (worker A, assigned) and
\* 2024-02-02 (worker B), today 2024-02-02, day numbers 0 and 1: after
\* mark-not-done of 2024-02-01 that record is not_done, A holds 2024-02-02
\* and B's record is present at 2024-02-03.
C6_CascadeExample ==
  [][\A entry \in Range(actionLog') :
       ( /\ Logged(entry) /\ IsCascadeRecord(entry) /\ entry.date = 0
         /\ Today = 1
         /\ Len(assignments) = 2
         /\ \E a, b \in Assignments :
              /\ DayOf(a.date) = 0 /\ a.status = "assigned"
              /\ DayOf(b.date) = 1 /\ b.worker_id # a.worker_id )
       => \E a, b \in Assignments :
            /\ DayOf(a.date) = 0 /\ DayOf(b.date) = 1
            /\ \E x \in Range(assignments') :
                 DayOf(x.date) = 0 /\ x.worker_id = a.worker_id /\ x.status = "not_done"
            /\ \E y \in Range(assignments') :
                 DayOf(y.date) = 1 /\ y.worker_id = a.worker_id
            /\ \E z \in Range(assignments') :
                 DayOf(z.date) = 2 /\ z.worker_id = b.worker_id]_vars

\* C7: after mark-not-done every Assignment that was dated after
\* today is dated exactly one day later, also when the future assignments sit
\* on consecutive days.
C7_FutureShifted ==
  [][\A entry \in Range(actionLog') :
       (Logged(entry) /\ IsCascadeRecord(entry)) =>
         {<<a.worker_id, DayOf(a.date) + 1>> :
            a \in {x \in Assignments : DayOf(x.date) > Today}}
         = {<<a.worker_id, DayOf(a.date)>> :
            a \in {x \in Range(assignments') : DayOf(x.date) > Today}}]_vars

\* C8: after a successful mark-not-done of a date D before today, D's record
\* is not_done, exactly one Assignment exists for today and it is the failed
\* worker's, a record of another worker for today was deleted, and a newly
\* created one is assigned with the worker's last_assigned_date set to today.
C8_UndoneToday ==
  [][\A entry \in Range(actionLog') :
       (Logged(entry) /\ IsCascadeRecord(entry) /\ entry.date < Today) =>
         \E f \in Assignments :
           /\ DayOf(f.date) = entry.date
           /\ LET hadOwn == \E x \in Assignments :
                              DayOf(x.date) = Today /\ x.worker_id = f.worker_id
                  hadOther == \E x \in Assignments :
                                DayOf(x.date) = Today /\ x.worker_id # f.worker_id
              IN  /\ OnDay(assignments', entry.date) # {}
                  /\ \A n \in OnDay(assignments', entry.date) :
                       assignments'[n].status = "not_done"
                  /\ Cardinality(OnDay(assignments', Today)) = 1
                  /\ \A n \in OnDay(assignments', Today) :
                       assignments'[n].worker_id = f.worker_id
                  /\ hadOther => Len(assignments') = Len(assignments)
                  /\ ~hadOwn =>
                       /\ \A n \in OnDay(assignments', Today) :
                            assignments'[n].status = "assigned"
                       /\ \E w \in Range(workers') :
                            /\ w.name = f.worker_id
                            /\ w.last_assigned_date = Midnight(Today)]_vars

\* C8 witness: a mark-not-done of yesterday created today's assignment
C8_Witness ==
  /\ Len(actionLog) >= 1
  /\ IsCascadeRecord(actionLog[Len(actionLog)])
  /\ actionLog[Len(actionLog)].detail = "reassigned_today"
  /\ actionLog[Len(actionLog)].date < Today
  /\ \E x \in Assignments :
       /\ DayOf(x.date) = Today /\ x.status = "assigned"
       /\ x.worker_id = actionLog[Len(actionLog)].worker_id

\* the largest day that has an Assignment
LatestDay == CHOOSE d \in {DayOf(a.date) : a \in Assignments} :
               \A a \in Assignments : DayOf(a.date) <= d

\* the queue entry of highest order
HighestOrder == CHOOSE q \in Range(queue) : \A p \in Range(queue) : p.order <= q.order

\* C9: enqueue gives the new entry the start date
\*   (start_date + duration_days of the entry of highest order) when the queue
\*   is non-empty, else (latest Assignment date + 1) when that date is today
\*   or later, else today; a result before today is replaced by today.
C9_EnqueueStart ==
  [][\A entry \in Range(actionLog') :
       (Logged(entry) /\ entry.action_type = "added_to_queue") =>
         LET computed ==
               IF queue # <<>>
               THEN DayOf(HighestOrder.start_date) + HighestOrder.duration_days
               ELSE IF assignments # <<>> /\ LatestDay >= Today
               THEN LatestDay + 1
               ELSE Today
             expected == IF computed < Today THEN Today ELSE computed
         IN  /\ Len(queue') = Len(queue) + 1
             /\ SubSeq(queue', 1, Len(queue)) = queue
             /\ queue'[Len(queue')].start_date = Midnight(expected)
             /\ DayOf(queue'[Len(queue')].start_date) >= Today]_vars

\* C9 witness: an entry was appended behind a stale one and clamped to today
C9_Witness ==
  /\ Len(queue) = 2
  /\ DayOf(queue[1].start_date) + queue[1].duration_days < Today
  /\ DayOf(queue[2].start_date) = Today
  /\ actionLog[Len(actionLog)].action_type = "added_to_queue"

\* C10 (as claimed): empty queue, today 2024-01-10, latest Assignment dated
\* 2024-01-05 (day numbers 5 and 0): the new entry starts on 2024-01-06.
C10_StartsAfterLatest ==
  [][\A entry \in Range(actionLog') :
       ( /\ Logged(entry) /\ entry.action_type = "added_to_queue"
         /\ queue = <<>> /\ assignments # <<>>
         /\ Today = 5 /\ LatestDay = 0 )
       => DayOf(queue'[Len(queue')].start_date) = 1]_vars

\* C10 (amended): in that case the new entry starts on 2024-01-10, today,
\* because the latest Assignment lies before today.
C10_StartsToday ==
  [][\A entry \in Range(actionLog') :
       ( /\ Logged(entry) /\ entry.action_type = "added_to_queue"
         /\ queue = <<>> /\ assignments # <<>>
         /\ Today = 5 /\ LatestDay = 0 )
       => queue'[Len(queue')].start_date = Midnight(5)]_vars

\* C10 witness: the entry enqueued five days after the only assignment
C10_Witness ==
  /\ Today = 5
  /\ Len(queue) = 1
  /\ assignments # <<>>
  /\ LatestDay = 0
  /\ actionLog[Len(actionLog)].action_type = "added_to_queue"
  /\ actionLog[Len(actionLog)].date = 5

\* C11: an enqueue gives the new entry order 1 when the queue is empty and
\* (maximum existing order) + 1 otherwise, and after every step the orders of
\* the queue entries that coexist are pairwise distinct.
C11_OrderDistinct ==
  [][/\ \A entry \in Range(actionLog') :
          (Logged(entry) /\ entry.action_type = "added_to_queue") =>
            /\ Len(queue') = Len(queue) + 1
            /\ queue'[Len(queue')].order =
                 IF queue = <<>> THEN 1 ELSE HighestOrder.order + 1
     /\ \A i, j \in 1..Len(queue') :
          i # j => queue'[i].order # queue'[j].order]_vars

\* C11 witness: two entries wait in the queue, enqueued one after the other
C11_Witness ==
  /\ Len(queue) = 2
  /\ queue[1].order = 1
  /\ queue[2].order = 2

\* C12: when resolver invocations for the same day have all finished, exactly
\* one Assignment exists for that day and every one of them has returned
\* success, none an error.
C12_RaceResolved ==
  \A p, q \in Procs :
    ( /\ p # q
      /\ pc[p] \in {"ok", "error"}
      /\ pc[q] \in {"ok", "error"}
      /\ DayOf(local[p].t) = DayOf(local[q].t) )
    => /\ Cardinality(OnDay(assignments, DayOf(local[p].t))) = 1
       /\ pc[p] = "ok"
       /\ pc[q] = "ok"

\* the records of the four collections are the same before and after the step
StoreUnchanged == UNCHANGED <<workers, assignments, queue, actionLog>>

\* C13: an enqueue request of an admin whose duration_days is below 1 or above
\* 7 is answered 400 (invalid input) and leaves queue, assignments, workers and
\* action log as they were; every stored queue entry has 1 <= duration_days <= 7.
C13_DurationRejected ==
  [][/\ \A w \in WorkerInputs, d \in DurationInputs, pw \in Passwords :
          ( /\ pw = adminPass /\ adminPass # ""
            /\ (d < 1 \/ d > 7)
            /\ last'.op = "queueAdd"
            /\ Responded(queueAddHandler(DB, w, d, pw)) )
          => /\ last'.code = 400
             /\ StoreUnchanged
     /\ \A e \in Range(queue') : 1 <= e.duration_days /\ e.duration_days <= 7]_vars

\* C13 witness: a request with a bad duration was refused while an accepted
\* entry sits in the queue
C13_Witness ==
  /\ last.op = "queueAdd"
  /\ last.code = 400
  /\ last.message = "duration_days must be between 1 and 7."
  /\ Len(queue) = 1
  /\ Len(actionLog) = 1

\* C14: a status update by an admin with a status outside {assigned, done,
\* not_done} is answered 400 (invalid input), one with a valid status for an id
\* no assignment has is answered 404 (not found); in both cases no record is
\* modified and nothing is logged.
C14_StatusRejected ==
  [][\A id \in 0..Len(assignments), st \in StatusInputs, pw \in Passwords :
       ( /\ pw = adminPass /\ adminPass # ""
         /\ (st \notin {"assigned", "done", "not_done"} \/ id \notin 1..Len(assignments))
         /\ last'.op = "setStatus"
         /\ Responded(setStatusHandler(DB, id, st, pw)) )
       => /\ st \notin {"assigned", "done", "not_done"} =>
               last'.code = 400 /\ StoreUnchanged
          /\ (st \in {"assigned", "done", "not_done"} /\ id \notin 1..Len(assignments)) =>
               last'.code = 404 /\ StoreUnchanged]_vars

\* C14 witness: with an assignment in the store, a status update was refused
\* for its status value
C14_Witness ==
  /\ last.op = "setStatus"
  /\ last.code = 400
  /\ assignments # <<>>
  /\ \A a \in Assignments : a.status = "assigned"

\* C15: queue add, status update and mark-not-done with a password that is not
\* the configured secret are refused (403) and change nothing; with no secret
\* configured they are refused for every password, the empty one included.
\* Stated per step: a step that changes a record or carries another answer
\* than 403 is not the handling of such a request.
C15_AdminOnly ==
  [][~(last'.code = 403 /\ StoreUnchanged) =>
       \A pw \in Passwords :
         (pw # adminPass \/ adminPass = "") =>
           /\ last'.op = "queueAdd" =>
                \A w \in WorkerInputs, d \in DurationInputs :
                  ~Responded(queueAddHandler(DB, w, d, pw))
           /\ last'.op = "setStatus" =>
                \A id \in 0..Len(assignments), st \in StatusInputs :
                  ~Responded(setStatusHandler(DB, id, st, pw))
           /\ last'.op = "markNotDone" =>
                \A d \in {NoDate} \cup (0..(MaxDay + 1)) :
                  ~Responded(markNotDoneHandler(DB, d, pw))]_vars

\* C15 witness: no secret is configured and a status update for an existing
\* assignment was refused
C15_Witness ==
  /\ adminPass = ""
  /\ last.op = "setStatus"
  /\ last.code = 403
  /\ assignments # <<>>

\* C16: GET action-log hands audit entries only to a caller who presents the
\* valid admin secret; any other caller receives no entry.
C16_LogAdminOnly ==
  [][\A pw \in Passwords :
       (Responded(actionLogHandler(DB, pw)) /\ ~(adminPass # "" /\ pw = adminPass))
       => (last'.op = "actionLog" => last'.records = <<>>)]_vars

\* C17: GET current-assignee, after running the resolver, answers with the
\* worker of today's Assignment whenever an Assignment for today exists,
\* whatever its status, and says 'no assignee' only when none exists.
C17_CurrentAssignee ==
  [][(Responded(currentAssigneeGoHandler(DB)) \/ Responded(currentAssigneeHandler(DB)))
       => IF OnDay(assignments', Today) # {}
          THEN /\ last'.code = 200
               /\ \E n \in OnDay(assignments', Today) :
                    assignments'[n].worker_id = last'.worker
          ELSE last'.code # 200]_vars

\* C18: mark-not-done by an admin for a date that has no Assignment is
\* answered 404 (not found) and changes no Assignment, QueueEntry or Worker
\* record (and logs nothing).
C18_UndoneNotFound ==
  [][\A d \in 0..(MaxDay + 1), pw \in Passwords :
       ( /\ pw = adminPass /\ adminPass # ""
         /\ OnDay(assignments, d) = {}
         /\ last'.op = "markNotDone"
         /\ Responded(markNotDoneHandler(DB, d, pw)) )
       => last'.code = 404 /\ StoreUnchanged]_vars

\* C18 witness: mark-not-done was refused as not found while another day has
\* an Assignment and an entry waits in the queue
C18_Witness ==
  /\ last.op = "markNotDone"
  /\ last.code = 404
  /\ assignments # <<>>
  /\ queue # <<>>

C20_AnyTransition ==
  [][\A id \in 1..Len(assignments), st \in {"assigned", "done", "not_done"},
        pw \in Passwords :
       ( /\ pw = adminPass /\ adminPass # ""
         /\ last'.op = "setStatus"
         /\ Responded(setStatusHandler(DB, id, st, pw)) )
       => /\ last'.code = 200
          /\ assignments' = [assignments EXCEPT ![id].status = st]
          /\ UNCHANGED <<queue, workers>>]_vars

\* C20 witness: an Assignment that a status update had set to not_done was
\* set to done by the next one
C20_Witness ==
  /\ last.op = "setStatus"
  /\ last.code = 200
  /\ Len(actionLog) = 2
  /\ actionLog[2].action_type = "marked_not_done"
  /\ actionLog[2].detail = ""
  /\ actionLog[1].action_type = "assigned"
  /\ Len(assignments) = 1
  /\ assignments[1].status = "done"

\* the worker the roster order demands: of least last_assigned_date (none
\* counts as least), and no worker before it in the roster has the same date
RosterFirstOfLeast ==
  CHOOSE i \in 1..Len(workers) :
    /\ \A j \in 1..Len(workers) :
         workers[i].last_assigned_date <= workers[j].last_assigned_date
    /\ \A j \in 1..(i - 1) :
         workers[j].last_assigned_date # workers[i].last_assigned_date

\* C21: the worker a rotation step selects is determined by the roster and the
\* last_assigned_date values alone, and among workers tied on that date (or
\* several never-assigned ones) it is the one earliest in the roster.
C21_RotationTie ==
  [][\A entry \in Range(actionLog') :
       (Logged(entry) /\ IsRotationRecord(entry)) =>
         entry.worker_id = workers[RosterFirstOfLeast].name]_vars

\* C21 witness: the first two workers of the roster were picked on two
\* consecutive days while the third kept its date of day 0, so one of the two
\* picks was made among tied workers
C21_Witness ==
  /\ Len(actionLog) = 2
  /\ IsRotationRecord(actionLog[1]) /\ actionLog[1].worker_id = "keromag"
  /\ IsRotationRecord(actionLog[2]) /\ actionLog[2].worker_id = "megatorg"
  /\ actionLog[2].date = actionLog[1].date + 1
  /\ workers[3].last_assigned_date = Midnight(0)

\* C22: the action log is append-only and complete: no step changes or removes
\* a record it holds, and every step that changes a worker, an assignment or a
\* queue entry appends at least one record.
C22_LogComplete ==
  [][/\ Len(actionLog') >= Len(actionLog)
     /\ SubSeq(actionLog', 1, Len(actionLog)) = actionLog
     /\ <<workers, assignments, queue>>' # <<workers, assignments, queue>>
          => Len(actionLog') > Len(actionLog)]_vars

\* the step is a run of the daily resolver, of either program
ResolverRan ==
  \/ LET r == ensureDailyAssignmentGo(DB, now) IN Stored(r.db)
  \/ Stored(triggerDailyAssignmentHandler(DB).db)

\* C23: when today's assignment is not_done and the resolver runs, the record
\* is replaced: afterwards there is exactly one assignment for today and its
\* status is assigned.
C23_NotDoneReplaced ==
  [][((\E n \in OnDay(assignments, Today) : assignments[n].status = "not_done")
      /\ ResolverRan)
        => /\ Cardinality(OnDay(assignments', Today)) = 1
           /\ \A n \in OnDay(assignments', Today) : assignments'[n].status = "assigned"]_vars

\* the queue entries whose start_date is today or earlier
DueEntries == {e \in Range(queue) : DayOf(e.start_date) <= Today}

\* today has no assignment whose status is assigned or done
TodayOpen ==
  \A n \in OnDay(assignments, Today) : assignments[n].status \notin {"assigned", "done"}

\* C24: when today has no assigned or done assignment and some queue entry is
\* due, a run of the resolver gives today to the worker of the due entry of
\* lowest order, by the queue and not by rotation, and deletes that entry and
\* no other; an entry that starts after today stays queued.
C24_QueueBeforeRotation ==
  [][\A e \in DueEntries :
       (/\ TodayOpen
        /\ \A f \in DueEntries : e.order <= f.order
        /\ ResolverRan)
         => /\ \E n \in OnDay(assignments', Today) :
                 /\ assignments'[n].worker_id = e.worker_id
                 /\ assignments'[n].status = "assigned"
            /\ \E entry \in Range(actionLog') : Logged(entry) /\ IsQueueRecord(entry)
            /\ ~StillQueued(e)
            /\ \A f \in Range(queue) : f # e => StillQueued(f)]_vars

\* C25: when today has no assignment and no queue entry is due, a successful
\* run of the resolver appends exactly one assignment (today, the worker the
\* rotation selects, assigned), sets that worker's last_assigned_date to today
\* and leaves the other workers, the other assignments and the queue unchanged.
C25_RotationFrame ==
  [][\A entry \in Range(actionLog') :
       (/\ Logged(entry) /\ IsRotationRecord(entry)
        /\ OnDay(assignments, Today) = {}
        /\ DueEntries = {}
        /\ ResolverRan)
         => /\ entry.worker_id = workers[RosterFirstOfLeast].name
            /\ assignments' = Append(assignments,
                                     [worker_id |-> entry.worker_id,
                                      date |-> Midnight(Today), status |-> "assigned"])
            /\ queue' = queue
            /\ workers' = [i \in 1..Len(workers) |->
                             IF workers[i].name = entry.worker_id
                             THEN [workers[i] EXCEPT !.last_assigned_date = Midnight(Today)]
                             ELSE workers[i]]]_vars

\* the third rotation in a row: the other worker holds the date of the second
C25_Witness ==
  /\ Len(actionLog) = 3
  /\ \A k \in 1..3 : IsRotationRecord(actionLog[k]) /\ actionLog[k].date = k - 1
  /\ Len(assignments) = 3
  /\ Today = 2
  /\ workers[1].last_assigned_date = Midnight(2)
  /\ workers[2].last_assigned_date = Midnight(1)

\* C26: when the insert of today's assignment fails inside the resolver, the
\* invocation returns an error and has left the state as it found it: the
\* worker it chose, when no other invocation holds that worker and the worker
\* has no assignment for the day, has the last_assigned_date it had when the
\* invocation began, and every queue entry of that worker is still queued.
C26_FailureLeavesState ==
  \A p \in Procs :
    LET w == local[p].worker
    IN  (/\ pc[p] = "error"
         /\ \A q \in Procs \ {p} : local[q].worker # w
         /\ \A n \in OnDay(assignments, DayOf(local[p].t)) : assignments[n].worker_id # w)
          => /\ \A i \in 1..Len(workers) :
                  workers[i].name = w =>
                    workers[i].last_assigned_date =
                      local[p].prior.workers[i].last_assigned_date
             /\ \A e \in Range(local[p].prior.queue) :
                  e.worker_id = w => \E k \in 1..Len(queue) : queue[k].order = e.order

\* the days the resolver of part_000 assigns for the due entry e
SpanDays(e) ==
  LET first == IF DayOf(e.start_date) < Today THEN Today ELSE DayOf(e.start_date)
  IN  first..(first + e.duration_days - 1)

\* C27: when the resolver of part_000 takes a due entry and the create for some
\* day of its span fails, the remaining days are not lost: the entry is still
\* queued after the run, so that a later run can complete the span.
C27_SpanRetryable ==
  [][\A e \in DueEntries :
       (/\ ExistingAssignmentToday(assignments, Today) = 0
        /\ \A f \in DueEntries : e.order <= f.order
        /\ Stored(triggerDailyAssignmentHandler(DB).db)
        /\ \E d \in SpanDays(e) :
             \A n \in OnDay(assignments', d) : assignments'[n].worker_id # e.worker_id)
         => StillQueued(e)]_vars

\* the assignments dated before today
PastAssignments(asg) == {a \in Range(asg) : DayOf(a.date) < Today}

\* C28: a run of the resolver creates or updates no assignment dated before
\* today, also when the due entry's start_date is before today.
C28_NoPastAssignment ==
  [][\/ PastAssignments(assignments') = PastAssignments(assignments)
     \/ ~ResolverRan]_vars

\* an entry enqueued for day 0 was consumed on a later day: the worker has the
\* later day and day 0 has no assignment
C28_Witness ==
  /\ Len(actionLog) = 2
  /\ actionLog[1].action_type = "added_to_queue" /\ actionLog[1].date = 0
  /\ IsQueueRecord(actionLog[2]) /\ actionLog[2].date > 0
  /\ actionLog[2].worker_id = actionLog[1].worker_id
  /\ queue = <<>>
  /\ OnDay(assignments, 0) = {}
  /\ \E n \in OnDay(assignments, Today) : assignments[n].worker_id = actionLog[1].worker_id

\* C29: the changes of the mark-not-done handler are atomic for a resolver
\* that runs beside it: whenever the handler has completed, today's assignment
\* belongs to the failed worker.
C29_UndoneAtomic ==
  \A p \in Procs :
    pc[p] \in {"ok", "error"}
      => /\ OnDay(assignments, Today) # {}
         /\ \A n \in OnDay(assignments, Today) :
              assignments[n].worker_id = local[p].worker

\* the assignments dated after today
FutureRecords == {a \in Range(assignments) : DayOf(a.date) > Today}

C31_NoWorkers ==
  [][(Len(workers) = 0 /\ DueEntries = {})
       => /\ ensureDailyAssignmentGo(DB, now)
               = [db |-> DB, err |-> "no workers available for random assignment"]
          /\ Stored(triggerDailyAssignmentHandler(DB).db)
               => /\ processDailyAssignments(DB).err = "no workers available"
                  /\ \E entry \in Range(actionLog') :
                       /\ Logged(entry)
                       /\ entry.action_type = "daily_assignment_error"
                  /\ assignments' = <<>>]_vars

\* the resolver of part_000 has run on the empty roster and logged its failure
C31_Witness ==
  /\ Len(workers) = 0
  /\ assignments = <<>>
  /\ Len(actionLog) = 2
  /\ actionLog[1].action_type = "random_assignment_failed"
  /\ actionLog[2].action_type = "daily_assignment_error"

\* the store with the action log in order
LogUp == [DB EXCEPT !.logDown = FALSE]

\* the step did to workers, assignments and queue what r does, answered as r
\* does, and wrote nothing to the action log
SameButLog(r) ==
  /\ workers' = r.db.workers
  /\ assignments' = r.db.assignments
  /\ queue' = r.db.queue
  /\ last' = r.resp
  /\ actionLog' = actionLog

\* C32: a failed write of the action log neither fails nor undoes the primary
\* operation: while the log cannot be written, an enqueue, a run of the
\* resolver (GET current-assignee of main.go) and a status update change workers, assignments and queue and
\* answer exactly as they do when the log is written.
C32_LogFailureIgnored ==
  [][logDown =>
       /\ \A w \in WorkerInputs, d \in DurationInputs :
            (last'.op = "queueAdd" /\ last' = queueAddHandler(DB, w, d, Secret).resp
               /\ Stored(queueAddHandler(DB, w, d, Secret).db))
              => SameButLog(queueAddHandler(LogUp, w, d, Secret))
       /\ (last'.op = "currentAssigneeGo" /\ Stored(currentAssigneeGoHandler(DB).db))
            => SameButLog(currentAssigneeGoHandler(LogUp))
       /\ \A id \in 0..Len(assignments), st \in StatusInputs :
            (last'.op = "setStatus" /\ last' = setStatusHandler(DB, id, st, Secret).resp
               /\ Stored(setStatusHandler(DB, id, st, Secret).db))
              => SameButLog(setStatusHandler(LogUp, id, st, Secret))]_vars

\* an enqueue, a resolution and a status update succeeded with nothing logged
C32_Witness ==
  /\ logDown
  /\ actionLog = <<>>
  /\ last.op = "setStatus" /\ last.code = 200
  /\ queue # <<>>
  /\ \E n \in OnDay(assignments, Today) : assignments[n].status = "not_done"

\* the number of queue entries deleted so far: those logged as added and gone
DeletedEntries ==
  Cardinality({k \in 1..Len(actionLog) : actionLog[k].action_type = "added_to_queue"})
    - Len(queue)

\* C33: whatever the interleaving of the resolver invocations of one day, once
\* none of them is under way at most one queue entry has been deleted and every
\* worker whose last_assigned_date was written holds today's assignment.
C33_RaceWrites ==
  (\A p \in Procs : pc[p] \in {"idle", "ok", "error"})
    => /\ DeletedEntries <= 1
       /\ \A i \in 1..Len(workers) :
            workers[i].last_assigned_date # NoDate
              => \E n \in OnDay(assignments, Today) :
                   assignments[n].worker_id = workers[i].name

C35_EnqueueRace ==
  \A i, j \in 1..Len(queue) :
    i # j
      => /\ queue[i].order # queue[j].order
         /\ \/ DayOf(queue[i].start_date) + queue[i].duration_days
                 <= DayOf(queue[j].start_date)
            \/ DayOf(queue[j].start_date) + queue[j].duration_days
                 <= DayOf(queue[i].start_date)

\* C36: with a fixed roster of N workers, an empty queue and no admin
\* operation, the resolutions of N successive days assign N distinct workers:
\* two assignments less than N days apart belong to different workers.
C36_RoundRobin ==
  \A a, b \in Range(assignments) :
    (/\ a.date # b.date
     /\ DayOf(a.date) - DayOf(b.date) < Len(workers)
     /\ DayOf(b.date) - DayOf(a.date) < Len(workers))
      => a.worker_id # b.worker_id

\* the three seeded workers, each assigned once on three successive days
C36_Witness ==
  /\ Len(workers) = 3
  /\ \A d \in 0..2 : OnDay(assignments, d) # {}
  /\ {a.worker_id : a \in Range(assignments)} = Range(SeedWorkers)

\* the requests have stopped for good
Quiet == pc["http"] = "ok"

\* C37: when the resolver runs on every day and the admin requests have
\* stopped, every queue entry is consumed in the end: the queue gets empty,
\* and each entry that leaves it does so in a step that gives today to its
\* worker.
C37_QueueDrains ==
  /\ Quiet ~> (queue = <<>>)
  /\ [][\A e \in Range(queue) :
          (Quiet /\ ~StillQueued(e))
            => \E n \in OnDay(assignments', Today) :
                 /\ assignments'[n].worker_id = e.worker_id
                 /\ assignments'[n].status = "assigned"]_vars

\* after the requests of the first MaxDay days had stopped, an entry was
\* consumed on a later day and the queue is empty
C37_Witness ==
  /\ Quiet
  /\ queue = <<>>
  /\ \E k \in 1..Len(actionLog) :
       /\ IsQueueRecord(actionLog[k])
       /\ actionLog[k].date > MaxDay

\* C38: mark-not-done for today's own date creates no assignment and leaves
\* today's record not_done, so that no assigned record for today remains, and
\* still moves every queue entry that starts today or later and every later
\* assignment by one day.
C38_UndoneToday ==
  [][(/\ isAdminGo(Secret)
      /\ OnDay(assignments, Today) # {}
      /\ markNotDoneHandler(DB, Today, Secret).resp.code = 200
      /\ Stored(markNotDoneHandler(DB, Today, Secret).db))
       => /\ Len(assignments') = Len(assignments)
          /\ \A n \in OnDay(assignments', Today) : assignments'[n].status = "not_done"
          /\ OnDay(assignments', Today) # {}
          /\ \A e \in Range(queue) :
               DayOf(e.start_date) >= Today
                 => [e EXCEPT !.start_date = Midnight(DayOf(e.start_date) + 1)]
                      \in Range(queue')
          /\ \A a \in FutureRecords :
               [a EXCEPT !.date = Midnight(DayOf(a.date) + 1)] \in Range(assignments')]_vars

====
